---- MODULE Spec2Model ----
(***************************************************************************)
(* Model of the gomigrate migration engine (Migrator): the registry        *)
(* m.migrations, the persisted log table, the ordered query Migrations,    *)
(* the single-migration transition ApplyMigration and the bulk operations  *)
(* Migrate, Rollback, RollbackN and RollbackAll.                           *)
(*                                                                         *)
(* Every blocking database or artifact call is one step whose result       *)
(* (success or an error) is chosen by the environment.                     *)
(***************************************************************************)
EXTENDS Integers, Sequences, FiniteSets, TLC

\* ------------------------------------------------------------------ bounds
\* Largest migration id that may appear in a registry.
MaxId == 3
\* Number of statements GetMigrationCommands splits every script into.
MaxCmds == 2

\* ------------------------------------------------------- program constants
Inactive == 0
Active == 1
\* The "all migrations" argument of Migrations.
AnyStatus == 0 - 1
upMigration == "up"
downMigration == "down"

Ids == 1..MaxId
\* The values of n offered to RollbackN: negative, zero, in range, over-large.
NValues == (0 - 1)..(MaxId + 1)
\* A migrationType that is neither up nor down.
MTypes == {upMigration, downMigration, "sideways"}
\* The concrete types a MigrationSource value may have.
Sources == {"FileMigrationSource", "AssetMigrationSource", "OtherSource"}

VARIABLES
    migrations, \* m.migrations: id -> Status, for the discovered ids
    log,        \* the ids that have a row in the gomigrate table (committed)
    source,     \* the concrete type of m.Source
    pc,         \* position of the caller's thread
    call,       \* the public call in progress, or the last one made
    list,       \* the slice returned by Migrations to the bulk operation
    i,          \* the loop index of the bulk operation (0-based, as in Go)
    last,       \* last_migration of RollbackN
    cur,        \* the arguments of the ApplyMigration in progress
    k,          \* 1-based index of the next command of the script
    tx,         \* the open transaction and its uncommitted view of the log
    err,        \* the value returned by the last call
    events,     \* history: every artifact and database call of this call
    snap,       \* history: registry and log at call start and at apply start
    prev,       \* history: what the previous call was, when it matters
    boot        \* the run of NewMigratorWithLogger: its locals and its history

vars == <<migrations, log, source, pc, call, list, i, last, cur, k, tx, err,
          events, snap, prev, boot>>

\* ------------------------------------------------------------ error values
Nil == <<>>
Err(site, id, n) == <<site, id, n>>
InvalidMigrationType == Err("InvalidMigrationType", 0, 0)
UnsupportedSource == Err("Unsupport MigrationSource type", 0, 0)
\* The runtime fault of an index outside a slice.
IndexOutOfRange == Err("panic: index out of range", 0, 0)

NoTx == [open |-> FALSE, id |-> 0, log |-> {}]
NoCall == [op |-> "none", n |-> 0, id |-> 0, mType |-> upMigration]
NoCur == [id |-> 0, mType |-> upMigration]
NoPrev == [kind |-> "other", id |-> 0, m |-> <<>>, log |-> {}]
\* The empty path "".
NoPath == <<0, "", "">>
\* NewMigratorWithLogger before its first statement, for the artifacts matches.
BootStart(matches) ==
    [pc |-> "probe", matches |-> matches, tableExists |-> FALSE, created |-> "no",
     fatalf |-> "none", discovered |-> FALSE, ms |-> <<>>, todo |-> {},
     looked |-> <<>>, held |-> {}, result |-> "none", err |-> Nil]
\* NewMigratorWithLogger has returned an engine, which is now in use.
BootOver == [BootStart(<<>>) EXCEPT !.pc = "over", !.result = "engine"]

\* ----------------------------------------------------------- ordered query
\* Less of uint64slice.
uint64sliceLess(a, b) == a < b

RECURSIVE Insert(_, _)
Insert(x, s) ==
    IF s = <<>> THEN <<x>>
    ELSE IF uint64sliceLess(x, Head(s)) THEN <<x>> \o s
    ELSE <<Head(s)>> \o Insert(x, Tail(s))

\* sort.Sort over the ids.
RECURSIVE SortIds(_)
SortIds(s) == IF s = <<>> THEN <<>> ELSE Insert(Head(s), SortIds(Tail(s)))

\* The orders in which ranging over a map with key set S may yield its keys.
MapOrders(S) ==
    {o \in [1..Cardinality(S) -> S] : \A a, b \in 1..Cardinality(S) : a # b => o[a] # o[b]}

\* Faulty variant of MigrationsOf: the ids are filtered but never sorted.
MigrationsOfUnsorted(reg, order, status) ==
    LET keep(id) == status = AnyStatus \/ reg[id] = status
    IN  SelectSeq(order, keep)

\* Faulty variant of MigrationsOf: the ids are sorted but the status is ignored.
MigrationsOfUnfiltered(reg, order, status) == SortIds(order)

\* Migrations(status) on registry reg, when the map is ranged over in order:
\* the ids are collected in that order, sorted, and filtered by status.
MigrationsOf(reg, order, status) ==
    LET ids == SortIds(order)
        keep(id) == status = AnyStatus \/ reg[id] = status
    IN  SelectSeq(ids, keep)

\* --------------------------------------------------------------- the state
\* A constructed engine: every discovered migration is Active exactly when
\* the log held a row for it (getMigrationStatuses), and nothing is running.
Init ==
    /\ \E D \in SUBSET Ids : migrations \in [D -> {Inactive, Active}]
    /\ log = {id \in DOMAIN migrations : migrations[id] = Active}
    /\ source \in Sources
    /\ pc = "idle"
    /\ call = NoCall
    /\ list = <<>>
    /\ i = 0
    /\ last = 0
    /\ cur = NoCur
    /\ k = 0
    /\ tx = NoTx
    /\ err = Nil
    /\ events = <<>>
    /\ snap = [m |-> migrations, log |-> log, am |-> migrations, alog |-> log]
    /\ prev = NoPrev
    /\ boot = BootOver

\* What the call that has just returned was, for the call that follows it.
PrevOf ==
    IF call.op = "Migrate" /\ err = Nil THEN
        [kind |-> "migrateOk", id |-> 0, m |-> <<>>, log |-> {}]
    ELSE IF /\ call.op = "ApplyMigration" /\ call.mType = upMigration /\ err = Nil
            /\ snap.m[call.id] = Inactive /\ call.id \notin snap.log THEN
        [kind |-> "upOk", id |-> call.id, m |-> snap.m, log |-> snap.log]
    ELSE NoPrev

\* The start of a public call c.
StartCall(c) ==
    /\ pc = "idle"
    /\ call' = c
    /\ UNCHANGED <<migrations, log, source, tx, err, events, prev, boot>>

\* The caller has taken the result of the call that returned: the locals of
\* the call are gone, and its history is reduced to what the next call needs.
Resume ==
    /\ pc = "returned"
    /\ pc' = "idle"
    /\ prev' = PrevOf
    /\ call' = NoCall
    /\ err' = Nil
    /\ events' = <<>>
    /\ list' = <<>>
    /\ i' = 0
    /\ last' = 0
    /\ snap' = [m |-> migrations, log |-> log, am |-> migrations, alog |-> log]
    /\ UNCHANGED <<migrations, log, source, cur, k, tx, boot>>

\* Entering ApplyMigration(migration, mType).
EnterApply(id, mType) ==
    /\ pc' = "apply"
    /\ cur' = [id |-> id, mType |-> mType]
    /\ k' = 0

\* Faulty variant of ApplyReturn: the bulk loops drop the error and carry on.
ApplyReturnContinues(e) ==
    /\ cur' = NoCur
    /\ k' = 0
    /\ IF call.op = "ApplyMigration"
       THEN pc' = "returned" /\ err' = e /\ UNCHANGED i
       ELSE IF call.op = "Migrate"
            THEN pc' = "migrate" /\ i' = i + 1 /\ UNCHANGED err
            ELSE pc' = "rollback" /\ i' = i - 1 /\ UNCHANGED err

\* ApplyMigration returns e to its caller: the bulk loops return a non-nil
\* error at once and otherwise move to the next index.
ApplyReturn(e) ==
    /\ cur' = NoCur
    /\ k' = 0
    /\ IF call.op = "ApplyMigration" \/ e # Nil
       THEN pc' = "returned" /\ err' = e /\ UNCHANGED i
       ELSE IF call.op = "Migrate"
            THEN pc' = "migrate" /\ i' = i + 1 /\ UNCHANGED err
            ELSE pc' = "rollback" /\ i' = i - 1 /\ UNCHANGED err

\* ----------------------------------------------------------- ApplyMigration
\* A caller applies or reverts one migration of the registry directly.
CallApplyMigration ==
    /\ pc = "idle"
    /\ \E id \in DOMAIN migrations, mType \in MTypes :
        /\ StartCall([op |-> "ApplyMigration", n |-> 0, id |-> id, mType |-> mType])
        /\ EnterApply(id, mType)
        /\ snap' = [m |-> migrations, log |-> log, am |-> migrations, alog |-> log]
        /\ list' = <<>>
        /\ i' = 0
        /\ last' = 0

ApplyFrame == UNCHANGED <<source, call, list, last, snap, prev, boot>>

ApplyInvalidType ==
    /\ pc = "apply"
    /\ cur.mType \notin {upMigration, downMigration}
    /\ ApplyReturn(InvalidMigrationType)
    /\ UNCHANGED <<migrations, log, tx, events>>
    /\ ApplyFrame

ApplyUnsupportedSource ==
    /\ pc = "apply"
    /\ cur.mType \in {upMigration, downMigration}
    /\ source \notin {"FileMigrationSource", "AssetMigrationSource"}
    /\ ApplyReturn(UnsupportedSource)
    /\ UNCHANGED <<migrations, log, tx, events>>
    /\ ApplyFrame

CanRead ==
    /\ pc = "apply"
    /\ cur.mType \in {upMigration, downMigration}
    /\ source \in {"FileMigrationSource", "AssetMigrationSource"}

ReadOk ==
    /\ CanRead
    /\ events' = Append(events, <<"read", cur.id, 1>>)
    /\ pc' = "begin"
    /\ UNCHANGED <<migrations, log, tx, err, i, cur, k>>
    /\ ApplyFrame

\* Faulty variant of ReadFail: the transaction is opened before the artifact
\* is read, and is left open when the read fails.
ReadFailAfterBegin ==
    /\ CanRead
    /\ events' = events \o <<<<"begin", cur.id, 1>>, <<"read", cur.id, 0>>>>
    /\ tx' = [open |-> TRUE, id |-> cur.id, log |-> log]
    /\ ApplyReturn(Err("read", cur.id, 0))
    /\ UNCHANGED <<migrations, log>>
    /\ ApplyFrame

ReadFail ==
    /\ CanRead
    /\ events' = Append(events, <<"read", cur.id, 0>>)
    /\ ApplyReturn(Err("read", cur.id, 0))
    /\ UNCHANGED <<migrations, log, tx>>
    /\ ApplyFrame

BeginOk ==
    /\ pc = "begin"
    /\ events' = Append(events, <<"begin", cur.id, 1>>)
    /\ tx' = [open |-> TRUE, id |-> cur.id, log |-> log]
    /\ k' = 1
    /\ pc' = IF MaxCmds = 0 THEN "logwrite" ELSE "exec"
    /\ UNCHANGED <<migrations, log, err, i, cur>>
    /\ ApplyFrame

BeginFail ==
    /\ pc = "begin"
    /\ events' = Append(events, <<"begin", cur.id, 0>>)
    /\ ApplyReturn(Err("begin", cur.id, 0))
    /\ UNCHANGED <<migrations, log, tx>>
    /\ ApplyFrame

\* Faulty variant of RollbackAfter: the statement's error is returned even
\* when Rollback() fails.
RollbackAfterKeepsFirstError(ev, e, rollbackOk) ==
    /\ events' = events \o <<ev, <<"rollback", cur.id, IF rollbackOk THEN 1 ELSE 0>>>>
    /\ tx' = NoTx
    /\ ApplyReturn(e)
    /\ UNCHANGED <<migrations, log>>
    /\ ApplyFrame

\* Faulty variant of RollbackAfter: the error is returned without a call of
\* Rollback(), and the transaction stays open.
RollbackAfterSkipsRollback(ev, e, rollbackOk) ==
    /\ events' = Append(events, ev)
    /\ UNCHANGED tx
    /\ ApplyReturn(e)
    /\ UNCHANGED <<migrations, log>>
    /\ ApplyFrame

\* Faulty variant of RollbackAfter: the result of Rollback() is returned even when
\* it is nil, so the statement's error is lost.
RollbackAfterLosesError(ev, e, rollbackOk) ==
    /\ events' = events \o <<ev, <<"rollback", cur.id, IF rollbackOk THEN 1 ELSE 0>>>>
    /\ tx' = NoTx
    /\ ApplyReturn(IF rollbackOk THEN Nil ELSE Err("rollback", cur.id, 0))
    /\ UNCHANGED <<migrations, log>>
    /\ ApplyFrame

\* The failing database call ev returned e; transaction.Rollback() follows,
\* and its own error, if any, is returned instead of e.
RollbackAfter(ev, e, rollbackOk) ==
    /\ events' = events \o <<ev, <<"rollback", cur.id, IF rollbackOk THEN 1 ELSE 0>>>>
    /\ tx' = NoTx
    /\ ApplyReturn(IF rollbackOk THEN e ELSE Err("rollback", cur.id, 0))
    /\ UNCHANGED <<migrations, log>>
    /\ ApplyFrame

ExecOk ==
    /\ pc = "exec"
    /\ events' = Append(events, <<"exec", cur.id, k>>)
    /\ k' = k + 1
    /\ pc' = IF k = MaxCmds THEN "logwrite" ELSE "exec"
    /\ UNCHANGED <<migrations, log, tx, err, i, cur>>
    /\ ApplyFrame

\* transaction.Exec(cmd) fails.
ExecFail ==
    /\ pc = "exec"
    /\ \E rollbackOk \in BOOLEAN :
           RollbackAfter(<<"exec", cur.id, k>>, Err("exec", cur.id, k), rollbackOk)

\* transaction.Exec(cmd) succeeds and result.RowsAffected() fails.
RowsAffectedFail ==
    /\ pc = "exec"
    /\ \E rollbackOk \in BOOLEAN :
           RollbackAfter(<<"exec", cur.id, k>>, Err("rows", cur.id, k), rollbackOk)

\* Faulty variant of LogAfter: the delete statement removes nothing.
LogAfterNeverDeletes(l, id, mType) == IF mType = upMigration THEN l \cup {id} ELSE l

\* The log as the transaction sees it after the log statement of mType.
LogAfter(l, id, mType) == IF mType = upMigration THEN l \cup {id} ELSE l \ {id}

LogWriteOk ==
    /\ pc = "logwrite"
    /\ events' = Append(events, <<"logwrite", cur.id, 1>>)
    /\ tx' = [tx EXCEPT !.log = LogAfter(tx.log, cur.id, cur.mType)]
    /\ pc' = "commit"
    /\ UNCHANGED <<migrations, log, err, i, cur, k>>
    /\ ApplyFrame

LogWriteFail ==
    /\ pc = "logwrite"
    /\ \E rollbackOk \in BOOLEAN :
           RollbackAfter(<<"logwrite", cur.id, 0>>, Err("logwrite", cur.id, 0), rollbackOk)

\* Faulty variant of StatusAfter: the status is never set to Active.
StatusAfterNeverActive(mType) == Inactive

\* The status ApplyMigration stores after a commit of mType.
StatusAfter(mType) == IF mType = upMigration THEN Active ELSE Inactive

CommitOk ==
    /\ pc = "commit"
    /\ events' = Append(events, <<"commit", cur.id, 1>>)
    /\ log' = tx.log
    /\ tx' = NoTx
    /\ migrations' = [migrations EXCEPT ![cur.id] = StatusAfter(cur.mType)]
    /\ ApplyReturn(Nil)
    /\ ApplyFrame

\* Faulty variant of CommitFail: the status is updated although the commit failed.
CommitFailSetsStatus ==
    /\ pc = "commit"
    /\ events' = Append(events, <<"commit", cur.id, 0>>)
    /\ log' \in {log, tx.log}
    /\ tx' = NoTx
    /\ ApplyReturn(Err("commit", cur.id, 0))
    /\ migrations' = [migrations EXCEPT ![cur.id] = StatusAfter(cur.mType)]
    /\ ApplyFrame

\* transaction.Commit() reports an error: the database may or may not have
\* made the transaction durable, and the status is not touched.
CommitFail ==
    /\ pc = "commit"
    /\ events' = Append(events, <<"commit", cur.id, 0>>)
    /\ log' \in {log, tx.log}
    /\ tx' = NoTx
    /\ ApplyReturn(Err("commit", cur.id, 0))
    /\ UNCHANGED migrations
    /\ ApplyFrame

\* ---------------------------------------------------------- bulk operations
CallSnap == snap' = [m |-> migrations, log |-> log, am |-> migrations, alog |-> log]

\* Return e from the public call without entering ApplyMigration.
Return(e) ==
    /\ pc' = "returned"
    /\ err' = e

\* Every slice Migrations(status) may return, over the orders of the map.
Migrations(status) ==
    {MigrationsOf(migrations, order, status) : order \in MapOrders(DOMAIN migrations)}

Migrate ==
    /\ pc = "idle"
    /\ \E l \in Migrations(Inactive) :
        /\ StartCall([op |-> "Migrate", n |-> 0, id |-> 0, mType |-> upMigration])
        /\ list' = l
        /\ i' = 0
        /\ last' = 0
        /\ pc' = "migrate"
        /\ CallSnap
        /\ UNCHANGED <<cur, k>>

BulkFrame ==
    UNCHANGED <<migrations, log, source, call, list, last, tx, events, prev, boot>>

\* One turn of the range loop of Migrate.
MigrateNext ==
    /\ pc = "migrate"
    /\ i < Len(list)
    /\ EnterApply(list[i + 1], upMigration)
    /\ snap' = [snap EXCEPT !.am = migrations, !.alog = log]
    /\ UNCHANGED <<i, err>>
    /\ BulkFrame

MigrateDone ==
    /\ pc = "migrate"
    /\ i >= Len(list)
    /\ Return(Nil)
    /\ UNCHANGED <<i, cur, k, snap>>
    /\ BulkFrame

\* Faulty variant of LastMigration: off by one.
LastMigrationOffByOne(len, n) == len - n

\* last_migration of RollbackN.
LastMigration(len, n) == len - 1 - n

\* Faulty variant of RollbackNBody: the check for an empty slice is missing.
RollbackNBodyNoEmptyCheck(op, n, l) ==
    /\ call' = [op |-> op, n |-> n, id |-> 0, mType |-> downMigration]
    /\ UNCHANGED <<migrations, log, source, tx, err, events, prev, boot>>
    /\ list' = l
    /\ snap' = [m |-> migrations, log |-> log, am |-> migrations, alog |-> log]
    /\ UNCHANGED <<cur, k>>
    /\ last' = Len(l) - 1 - n
    /\ i' = Len(l) - 1
    /\ pc' = "rollback"

\* The body of RollbackN(n), entered from op.
RollbackNBody(op, n, l) ==
    /\ StartCall([op |-> op, n |-> n, id |-> 0, mType |-> downMigration])
    /\ list' = l
    /\ CallSnap
    /\ UNCHANGED <<cur, k>>
    /\ IF Len(list') = 0
       THEN /\ pc' = "returned"
            /\ i' = 0
            /\ last' = 0
       ELSE /\ last' = LastMigration(Len(list'), n)
            /\ i' = Len(list') - 1
            /\ pc' = "rollback"

RollbackN ==
    /\ pc = "idle"
    /\ \E n \in NValues, l \in Migrations(Active) : RollbackNBody("RollbackN", n, l)

\* Rollback is RollbackN(1).
Rollback ==
    /\ pc = "idle"
    /\ \E l \in Migrations(Active) : RollbackNBody("Rollback", 1, l)

\* RollbackAll is RollbackN(len(Migrations(Active))).
RollbackAll ==
    /\ pc = "idle"
    /\ \E l0, l \in Migrations(Active) : RollbackNBody("RollbackAll", Len(l0), l)

\* One turn of the loop of RollbackN: migrations[i] is reverted.
RollbackNext ==
    /\ pc = "rollback"
    /\ i # last
    /\ i >= 0 /\ i < Len(list)
    /\ EnterApply(list[i + 1], downMigration)
    /\ snap' = [snap EXCEPT !.am = migrations, !.alog = log]
    /\ UNCHANGED <<i, err>>
    /\ BulkFrame

\* The loop of RollbackN indexes outside the slice: the goroutine panics.
RollbackPanic ==
    /\ pc = "rollback"
    /\ i # last
    /\ ~(i >= 0 /\ i < Len(list))
    /\ pc' = "panic"
    /\ err' = IndexOutOfRange
    /\ UNCHANGED <<i, cur, k, snap>>
    /\ BulkFrame

RollbackDone ==
    /\ pc = "rollback"
    /\ i = last
    /\ Return(Nil)
    /\ UNCHANGED <<i, cur, k, snap>>
    /\ BulkFrame

Next ==
    \/ Resume
    \/ CallApplyMigration
    \/ ApplyInvalidType
    \/ ApplyUnsupportedSource
    \/ ReadOk
    \/ ReadFail
    \/ BeginOk
    \/ BeginFail
    \/ ExecOk
    \/ ExecFail
    \/ RowsAffectedFail
    \/ LogWriteOk
    \/ LogWriteFail
    \/ CommitOk
    \/ CommitFail
    \/ Migrate
    \/ MigrateNext
    \/ MigrateDone
    \/ RollbackN
    \/ Rollback
    \/ RollbackAll
    \/ RollbackNext
    \/ RollbackPanic
    \/ RollbackDone

Spec == Init /\ [][Next]_vars

\* The engine used only through Migrate, Rollback, RollbackN and RollbackAll,
\* with a database in which no Commit reports an error.
NextBulk ==
    \/ Resume
    \/ ApplyUnsupportedSource
    \/ ReadOk
    \/ ReadFail
    \/ BeginOk
    \/ BeginFail
    \/ ExecOk
    \/ ExecFail
    \/ RowsAffectedFail
    \/ LogWriteOk
    \/ LogWriteFail
    \/ CommitOk
    \/ Migrate
    \/ MigrateNext
    \/ MigrateDone
    \/ RollbackN
    \/ Rollback
    \/ RollbackAll
    \/ RollbackNext
    \/ RollbackPanic
    \/ RollbackDone

SpecBulk == Init /\ [][NextBulk]_vars

\* -------------------------------------------------------------- construction
\* Largest id an artifact name may encode.
MaxFileId == 2
\* Largest number of artifacts the source may enumerate.
MaxFiles == 4

InvalidMigrationPair == Err("Invalid pair of migration files", 0, 0)

\* The artifact names a source may enumerate, each written as what it
\* encodes: <<id, direction, name>>. One name encodes an empty name and one
\* encodes nothing at all.
Artifacts ==
    {<<id, dir, "init">> : id \in 0..MaxFileId, dir \in {upMigration, downMigration}}
        \cup {<<1, upMigration, "">>, <<0, "README", "">>}

\* The lists of distinct names of at most MaxFiles artifacts.
MatchLists ==
    UNION {{m \in [1..n -> Artifacts] : \A a, b \in 1..n : a # b => m[a] # m[b]} :
              n \in 0..MaxFiles}

\* parseMigrationPath: num, migrationType and name of an artifact name, or
\* an error for a name that encodes no migration.
parseMigrationPath(match) ==
    [num |-> match[1], migrationType |-> match[2], name |-> match[3],
     err |-> match[2] \notin {upMigration, downMigration}]

\* Faulty variant of valid: the down path is not checked.
validWithoutDown(m) == m.Id # 0 /\ m.Name # "" /\ m.UpPath # NoPath

\* Migration.valid.
valid(m) == m.Id # 0 /\ m.Name # "" /\ m.UpPath # NoPath /\ m.DownPath # NoPath

\* The first loop of FindMigrations: the map ms after the matches.
RECURSIVE PairUp(_, _)
PairUp(ms, matches) ==
    IF matches = <<>> THEN ms
    ELSE LET match == Head(matches)
             p == parseMigrationPath(match)
             migration == IF p.num \in DOMAIN ms THEN ms[p.num]
                          ELSE [Id |-> p.num, Name |-> p.name, Status |-> Inactive,
                                UpPath |-> NoPath, DownPath |-> NoPath]
             placed == IF p.migrationType = upMigration
                       THEN [migration EXCEPT !.UpPath = match]
                       ELSE [migration EXCEPT !.DownPath = match]
         IN  IF p.err THEN PairUp(ms, Tail(matches))
             ELSE PairUp((p.num :> placed) @@ ms, Tail(matches))

\* FindMigrations: the map and the error it returns for the matches.
FindMigrations(matches) ==
    LET ms == PairUp(<<>>, matches)
    IN  [ms |-> ms,
         err |-> IF \E id \in DOMAIN ms : ~valid(ms[id])
                 THEN InvalidMigrationPair ELSE Nil]

EngineIdle == UNCHANGED <<migrations, log, source, pc, call, list, i, last, cur, k,
                          tx, err, events, snap, prev>>

\* NewMigratorWithLogger returns (nil, e).
BootFail(e) == [boot EXCEPT !.pc = "done", !.result = "error", !.err = e]

\* MigrationTableExists: the probe finds the row of the table.
ProbeFound ==
    /\ boot.pc = "probe"
    /\ boot' = [boot EXCEPT !.pc = "find", !.tableExists = TRUE]
    /\ EngineIdle

\* MigrationTableExists: sql.ErrNoRows.
ProbeNoRows ==
    /\ boot.pc = "probe"
    /\ boot' = [boot EXCEPT !.pc = "create"]
    /\ EngineIdle

ProbeError ==
    /\ boot.pc = "probe"
    /\ boot' = BootFail(Err("probe", 0, 0))
    /\ EngineIdle

\* CreateMigrationsTable: the statement succeeds.
CreateOk ==
    /\ boot.pc = "create"
    /\ boot' = [boot EXCEPT !.pc = "find", !.created = "ok"]
    /\ EngineIdle

\* CreateMigrationsTable: the statement fails and the Logger's Fatalf ends
\* the process, as that of the standard library does.
CreateFailFatalfExits ==
    /\ boot.pc = "create"
    /\ boot' = [boot EXCEPT !.pc = "done", !.created = "failed", !.fatalf = "exited",
                            !.result = "exit"]
    /\ EngineIdle

\* CreateMigrationsTable: the statement fails and the Logger's Fatalf
\* returns; CreateMigrationsTable then returns nil.
CreateFailFatalfReturns ==
    /\ boot.pc = "create"
    /\ boot' = [boot EXCEPT !.pc = "find", !.created = "failed", !.fatalf = "returned"]
    /\ EngineIdle

\* migrator.Source.FindMigrations and the test of its error.
Discover ==
    /\ boot.pc = "find"
    /\ LET r == FindMigrations(boot.matches)
       IN  boot' = IF r.err # Nil
                   THEN [BootFail(r.err) EXCEPT !.discovered = TRUE, !.ms = r.ms]
                   ELSE [boot EXCEPT !.pc = "statuses", !.discovered = TRUE,
                                     !.ms = r.ms, !.todo = DOMAIN r.ms]
    /\ EngineIdle

\* The log table is there to be queried.
TablePresent == boot.tableExists \/ boot.created = "ok"

\* Faulty variant of LookupFound: the status is left as discovery set it.
LookupFoundKeepsInactive ==
    /\ boot.pc = "statuses"
    /\ TablePresent
    /\ \E id \in boot.todo :
           boot' = [boot EXCEPT !.todo = @ \ {id}, !.looked = Append(@, <<id, "row">>),
                                !.held = @ \cup {id}]
    /\ EngineIdle

\* getMigrationStatuses: the lookup of one migration finds its row.
LookupFound ==
    /\ boot.pc = "statuses"
    /\ TablePresent
    /\ \E id \in boot.todo :
           boot' = [boot EXCEPT !.todo = @ \ {id}, !.looked = Append(@, <<id, "row">>),
                                !.held = @ \cup {id}, !.ms[id].Status = Active]
    /\ EngineIdle

\* getMigrationStatuses: sql.ErrNoRows for one migration.
LookupNoRows ==
    /\ boot.pc = "statuses"
    /\ TablePresent
    /\ \E id \in boot.todo :
           boot' = [boot EXCEPT !.todo = @ \ {id},
                                !.looked = Append(@, <<id, "no rows">>)]
    /\ EngineIdle

LookupError ==
    /\ boot.pc = "statuses"
    /\ \E id \in boot.todo :
           boot' = [BootFail(Err("lookup", id, 0)) EXCEPT
                       !.todo = @ \ {id}, !.looked = Append(@, <<id, "error">>)]
    /\ EngineIdle

\* getMigrationStatuses has ranged over the whole map: the engine is returned.
StatusesDone ==
    /\ boot.pc = "statuses"
    /\ boot.todo = {}
    /\ boot' = [boot EXCEPT !.pc = "done", !.result = "engine"]
    /\ EngineIdle

InitNew ==
    /\ boot \in {BootStart(m) : m \in MatchLists}
    /\ migrations = <<>>
    /\ log = {}
    /\ source = "FileMigrationSource"
    /\ pc = "idle"
    /\ call = NoCall
    /\ list = <<>>
    /\ i = 0
    /\ last = 0
    /\ cur = NoCur
    /\ k = 0
    /\ tx = NoTx
    /\ err = Nil
    /\ events = <<>>
    /\ snap = [m |-> <<>>, log |-> {}, am |-> <<>>, alog |-> {}]
    /\ prev = NoPrev

NextNew ==
    \/ ProbeFound
    \/ ProbeNoRows
    \/ ProbeError
    \/ CreateOk
    \/ CreateFailFatalfExits
    \/ CreateFailFatalfReturns
    \/ Discover
    \/ LookupFound
    \/ LookupNoRows
    \/ LookupError
    \/ StatusesDone

SpecNew == InitNew /\ [][NextNew]_vars

\* ------------------------------------------------- vocabulary of the claims
BulkOps == {"Migrate", "RollbackN", "Rollback", "RollbackAll"}
RollbackOps == {"RollbackN", "Rollback", "RollbackAll"}

\* The ids of the events of one kind with one flag, in order of occurrence.
IdsOf(kind, flag) ==
    LET is(e) == e[1] = kind /\ e[3] = flag
        sel == SelectSeq(events, is)
    IN  [j \in 1..Len(sel) |-> sel[j][2]]

\* The migrations whose transaction committed in this call, in order.
CommittedIds == IdsOf("commit", 1)
\* The migrations whose artifact was read in this call, in order.
ReadIds == IdsOf("read", 1) \o IdsOf("read", 0)
Range(s) == {s[j] : j \in 1..Len(s)}
Ascending(s) == \A a, b \in 1..Len(s) : a < b => s[a] < s[b]
Descending(s) == \A a, b \in 1..Len(s) : a < b => s[a] > s[b]

\* No artifact or database call of this call has failed so far, and no
\* ApplyMigration of it has returned an error.
NoFailure ==
    /\ err \in {Nil, IndexOutOfRange}
    /\ \A j \in 1..Len(events) :
        /\ events[j][1] # "rollback"
        /\ events[j][1] # "exec" => events[j][3] = 1

ActiveAtCall == {id \in DOMAIN snap.m : snap.m[id] = Active}
InactiveAtCall == {id \in DOMAIN snap.m : snap.m[id] = Inactive}
\* The n highest ids of S.
TopN(S, n) == {id \in S : Cardinality({j \in S : j > id}) < n}
\* Migration id has the status and the log row it had when the call started.
Untouched(id) == migrations[id] = snap.m[id] /\ (id \in log <=> id \in snap.log)
Reverted(id) == migrations[id] = Inactive /\ id \notin log

\* ----------------------------------------------------------------------- C1
\* C1: for a registry with at least one Active migration and n greater than
\* the number of Active migrations, RollbackN(n) without a failing database
\* call reverts exactly all Active migrations, returns no error and ends
\* without a runtime fault.
C1_OverLargeNRevertsAll ==
    (/\ call.op = "RollbackN"
     /\ ActiveAtCall # {}
     /\ call.n > Cardinality(ActiveAtCall)
     /\ NoFailure)
    => /\ pc # "panic"
       /\ pc = "returned" =>
            /\ err = Nil
            /\ \A id \in ActiveAtCall : Reverted(id)
            /\ \A id \in DOMAIN migrations \ ActiveAtCall : Untouched(id)

\* ----------------------------------------------------------------------- C2
\* C2: RollbackN(n) with 1 <= n <= len(A) and no failure reverts exactly the
\* n highest Active ids, one at a time from the highest down, and leaves
\* every other migration's status and log row as they were; Rollback()
\* reverts exactly the single highest Active id.
C2_RollbackNRevertsLastN ==
    (/\ call.op \in {"RollbackN", "Rollback"}
     /\ call.n >= 1
     /\ call.n <= Cardinality(ActiveAtCall)
     /\ NoFailure)
    => /\ call.op = "Rollback" => call.n = 1
       /\ pc # "panic"
       /\ Descending(CommittedIds)
       /\ Descending(ReadIds)
       /\ Range(ReadIds) \subseteq TopN(ActiveAtCall, call.n)
       /\ Len(ReadIds) - Len(CommittedIds) \in {0, 1}
       /\ \A id \in Range(CommittedIds) : Reverted(id)
       /\ \A id \in DOMAIN migrations \ Range(ReadIds) : Untouched(id)
       /\ pc = "returned" =>
            /\ err = Nil
            /\ Range(CommittedIds) = TopN(ActiveAtCall, call.n)

C2_Witness ==
    /\ call.op = "RollbackN"
    /\ call.n = 2
    /\ pc = "returned"
    /\ NoFailure
    /\ \E a, b, c \in DOMAIN snap.m :
           /\ a < b /\ b < c
           /\ snap.m[a] = Active /\ snap.m[b] = Inactive /\ snap.m[c] = Active
           /\ CommittedIds = <<c, a>>

\* ----------------------------------------------------------------------- C3
\* C3 as stated: Migrate() applies the migrations Inactive at the time of the
\* call in strictly ascending id order, never one that was Active; when all
\* applications succeed every migration is Active and the log holds a row for
\* every registry id.
C3_MigrateAppliesAllLogged ==
    call.op = "Migrate"
    => /\ Ascending(ReadIds)
       /\ Range(ReadIds) \subseteq InactiveAtCall
       /\ (pc = "returned" /\ err = Nil) =>
            /\ Range(CommittedIds) = InactiveAtCall
            /\ \A id \in DOMAIN migrations : migrations[id] = Active /\ id \in log

\* C3 amended: ... when all applications succeed every migration is Active
\* and the log holds the rows it held before the call plus a row for every
\* migration the call applied; that is a row for every registry id when
\* every migration Active at the time of the call had its row.
C3_MigrateAppliesInactive ==
    call.op = "Migrate"
    => /\ Ascending(ReadIds)
       /\ Ascending(CommittedIds)
       /\ Range(ReadIds) \subseteq InactiveAtCall
       /\ Len(ReadIds) - Len(CommittedIds) \in {0, 1}
       /\ (pc = "returned" /\ err = Nil) =>
            /\ Range(CommittedIds) = InactiveAtCall
            /\ \A id \in DOMAIN migrations : migrations[id] = Active
            /\ log = snap.log \cup InactiveAtCall
            /\ (ActiveAtCall \subseteq snap.log) => DOMAIN migrations \subseteq log

C3_Witness ==
    /\ call.op = "Migrate"
    /\ pc = "returned"
    /\ err = Nil
    /\ Len(CommittedIds) >= 2
    /\ ActiveAtCall # {}
    /\ DOMAIN migrations \subseteq log

\* ----------------------------------------------------------------------- C4
\* The migration on which the bulk operation that returned an error failed.
FailedOn == list[i + 1]
\* The migrations before and after position i + 1 in iteration order.
Earlier == IF call.op = "Migrate" THEN {list[j] : j \in 1..i}
           ELSE {list[j] : j \in (i + 2)..Len(list)}
Later == (DOMAIN migrations \ Earlier) \ {FailedOn}

\* An artifact or database call of this call has failed.
SomeCallFailed ==
    \E j \in 1..Len(events) :
        \/ events[j][1] = "rollback"
        \/ events[j][1] # "exec" /\ events[j][3] = 0

\* C4: when Migrate or RollbackN fails on migration K it returns that error
\* at once: the migrations committed earlier in the call keep their new
\* status and log state, K keeps its previous status, and no artifact or
\* database call is made for any migration after K.
C4_BulkStopsAtFirstFailure ==
    /\ (call.op \in BulkOps /\ SomeCallFailed) => (pc = "returned" /\ err # Nil)
    /\ (call.op \in BulkOps /\ pc = "returned" /\ err # Nil)
       => /\ err[2] \in {FailedOn, 0}
          /\ Range(CommittedIds) = Earlier
          /\ \A id \in Earlier :
               /\ migrations[id] = (IF call.op = "Migrate" THEN Active ELSE Inactive)
               /\ id \in log <=> call.op = "Migrate"
          /\ migrations[FailedOn] = snap.m[FailedOn]
          /\ \A j \in 1..Len(events) : events[j][2] \in Earlier \cup {FailedOn}
          /\ \A id \in Later : Untouched(id)
          /\ ~tx.open

C4_Witness ==
    /\ call.op = "Migrate"
    /\ pc = "returned"
    /\ err # Nil
    /\ Earlier # {}
    /\ Later \cap Range(list) # {}
    /\ \E j \in 1..Len(events) : events[j] = <<"exec", FailedOn, 2>>

\* ----------------------------------------------------------------------- C5
\* The database call that failed inside the transaction, when the last two
\* events are that call and a successful rollback.
FailedInTx == events[Len(events) - 1]
RolledBack ==
    /\ pc = "returned"
    /\ Len(events) >= 2
    /\ events[Len(events)][1] = "rollback"
    /\ events[Len(events)][3] = 1

\* C5: if a script statement or the log statement fails inside the
\* transaction of ApplyMigration and the rollback succeeds, the log and the
\* status are as they were before the ApplyMigration, no later statement of
\* the script was executed, no transaction stays open, and the error
\* returned is the error of the failing statement.
C5_StatementFailureRollsBack ==
    RolledBack
    => LET f == FailedInTx
       IN  /\ f[1] \in {"exec", "logwrite"}
           /\ f[1] = "exec" => err \in {Err("exec", f[2], f[3]), Err("rows", f[2], f[3])}
           /\ f[1] = "logwrite" => err = Err("logwrite", f[2], 0)
           /\ log = snap.alog
           /\ migrations = snap.am
           /\ ~tx.open
           /\ \A j \in 1..Len(events) :
                (events[j][1] = "exec" /\ events[j][2] = f[2] /\ f[1] = "exec")
                    => events[j][3] <= f[3]
           /\ \A j \in 1..Len(events) :
                (events[j][1] \in {"logwrite", "commit"} /\ events[j][2] = f[2])
                    => (j = Len(events) - 1 /\ f[1] = "logwrite")

C5_Witness ==
    /\ RolledBack
    /\ call.op = "ApplyMigration"
    /\ call.mType = upMigration
    /\ FailedInTx = <<"exec", call.id, 1>>
    /\ err = Err("exec", call.id, 1)
    /\ migrations[call.id] = Inactive
    /\ MaxCmds >= 2

\* ----------------------------------------------------------------------- C6
LastEvent == events[Len(events)]

\* C6: in ApplyMigration the status changes (to Active for up, to Inactive
\* for down) only in the step in which the commit returns success; when the
\* commit fails the status is as it was and the commit error is returned.
C6_StatusFollowsCommit ==
    /\ [][migrations' # migrations =>
            /\ pc = "commit"
            /\ events' = Append(events, <<"commit", cur.id, 1>>)
            /\ migrations' = [migrations EXCEPT
                   ![cur.id] = IF cur.mType = upMigration THEN Active ELSE Inactive]]_vars
    /\ []((pc = "returned" /\ events # <<>> /\ LastEvent[1] = "commit" /\ LastEvent[3] = 0)
            => /\ migrations = snap.am
               /\ err = Err("commit", LastEvent[2], 0))

C6_Witness ==
    /\ pc = "returned"
    /\ events # <<>>
    /\ LastEvent = <<"commit", call.id, 0>>
    /\ call.op = "ApplyMigration"
    /\ call.mType = upMigration
    /\ migrations[call.id] = Inactive
    /\ call.id \in log
    /\ call.id \notin snap.alog

\* ----------------------------------------------------------------------- C7
\* C7: a Migrate() that immediately follows a Migrate() that returned no
\* error makes no artifact or database call, returns no error and leaves
\* registry and log as they were.
C7_MigrateIdempotent ==
    (call.op = "Migrate" /\ prev.kind = "migrateOk")
    => /\ events = <<>>
       /\ pc \in {"migrate", "returned"}
       /\ ~tx.open
       /\ migrations = snap.m
       /\ log = snap.log
       /\ pc = "returned" => err = Nil

C7_Witness ==
    /\ call.op = "Migrate"
    /\ prev.kind = "migrateOk"
    /\ pc = "returned"
    /\ Cardinality(DOMAIN migrations) >= 2

\* ----------------------------------------------------------------------- C8
\* C8: for a migration N that is Inactive with no log row, a successful
\* ApplyMigration(N, up) followed immediately by a successful
\* ApplyMigration(N, down) leaves N Inactive with no log row and every other
\* migration's status and log row as before the two calls.
C8_RoundTrip ==
    (/\ prev.kind = "upOk"
     /\ call.op = "ApplyMigration"
     /\ call.id = prev.id
     /\ call.mType = downMigration
     /\ pc = "returned"
     /\ err = Nil)
    => /\ migrations[prev.id] = Inactive
       /\ prev.id \notin log
       /\ migrations = prev.m
       /\ \A id \in DOMAIN migrations : id \in log <=> id \in prev.log
       /\ snap.m[prev.id] = Active
       /\ prev.id \in snap.log

C8_Witness ==
    /\ prev.kind = "upOk"
    /\ call.op = "ApplyMigration"
    /\ call.id = prev.id
    /\ call.mType = downMigration
    /\ pc = "returned"
    /\ err = Nil
    /\ \E o \in DOMAIN migrations : o # prev.id /\ migrations[o] = Active

\* ----------------------------------------------------------------------- C9
\* C9: when no migration is Active, RollbackN(n) for every n, Rollback() and
\* RollbackAll() return no error at once: no artifact is read, no
\* transaction is opened, no statement is executed, and registry and log
\* are as they were.
C9_RollbackWithoutActive ==
    (call.op \in RollbackOps /\ ActiveAtCall = {})
    => /\ pc = "returned"
       /\ err = Nil
       /\ events = <<>>
       /\ ~tx.open
       /\ migrations = snap.m
       /\ log = snap.log

C9_Witness ==
    /\ call.op = "RollbackN"
    /\ call.n > 1
    /\ ActiveAtCall = {}
    /\ Cardinality(DOMAIN migrations) >= 2
    /\ pc = "returned"

\* ---------------------------------------------------------------------- C10
StrictlyAscending(s) == \A a \in 1..(Len(s) - 1) : s[a] < s[a + 1]

\* C10: whenever Migrations(status) can be called (between the engine's
\* calls, and at the start of Migrate, RollbackN and RollbackAll), for every
\* status argument and every order in which the map is ranged over, its
\* result is strictly ascending by id and holds exactly the ids whose status
\* is the argument, or all ids for the argument -1.
C10_MigrationsSortedFiltered ==
    pc = "idle" =>
        \A status \in {AnyStatus, Inactive, Active, Active + 1} :
            \A order \in MapOrders(DOMAIN migrations) :
                LET r == MigrationsOf(migrations, order, status)
                IN  /\ StrictlyAscending(r)
                    /\ Range(r) = {id \in DOMAIN migrations :
                                      status = AnyStatus \/ migrations[id] = status}

C10_Witness ==
    /\ pc = "idle"
    /\ Cardinality(DOMAIN migrations) >= 3
    /\ \E a, b, c \in DOMAIN migrations :
           /\ a < b /\ b < c
           /\ migrations[a] = Inactive /\ migrations[b] = Active /\ migrations[c] = Inactive
           /\ \E order \in MapOrders(DOMAIN migrations) :
                  /\ order[1] = c
                  /\ MigrationsOf(migrations, order, Inactive) = <<a, c>>

\* ---------------------------------------------------------------------- C14
\* C14 as stated: RollbackAll() with no failure reverts every Active
\* migration in strictly descending id order; afterwards every migration is
\* Inactive and the log holds no row for any registry id.
C14_RollbackAllEmptiesLog ==
    (call.op = "RollbackAll" /\ NoFailure)
    => /\ pc # "panic"
       /\ Descending(ReadIds)
       /\ Descending(CommittedIds)
       /\ Range(ReadIds) \subseteq ActiveAtCall
       /\ pc = "returned" =>
            /\ err = Nil
            /\ Range(CommittedIds) = ActiveAtCall
            /\ \A id \in DOMAIN migrations : migrations[id] = Inactive /\ id \notin log

\* C14 amended: ... afterwards every migration is Inactive and the log holds
\* no row for any migration that was Active at the time of the call, the
\* other rows being as before; that is no row for any registry id when no
\* migration Inactive at the time of the call had a row.
C14_RollbackAllRevertsActive ==
    (call.op = "RollbackAll" /\ NoFailure)
    => /\ pc # "panic"
       /\ Descending(ReadIds)
       /\ Descending(CommittedIds)
       /\ Range(ReadIds) \subseteq ActiveAtCall
       /\ Len(ReadIds) - Len(CommittedIds) \in {0, 1}
       /\ pc = "returned" =>
            /\ err = Nil
            /\ Range(CommittedIds) = ActiveAtCall
            /\ \A id \in DOMAIN migrations : migrations[id] = Inactive
            /\ log = snap.log \ ActiveAtCall
            /\ (InactiveAtCall \cap snap.log = {}) => (DOMAIN migrations \cap log = {})

C14_Witness ==
    /\ call.op = "RollbackAll"
    /\ NoFailure
    /\ pc = "returned"
    /\ Len(CommittedIds) >= 2
    /\ InactiveAtCall # {}
    /\ DOMAIN migrations \cap log = {}

\* ---------------------------------------------------------------------- C15
\* The last two events are a failed database call and a failed rollback.
RollbackFailed ==
    /\ pc = "returned"
    /\ Len(events) >= 2
    /\ events[Len(events)][1] = "rollback"
    /\ events[Len(events)][3] = 0

\* C15: when a statement or the log write fails and the rollback that
\* follows fails too, ApplyMigration returns the rollback's error, not the
\* statement's, and the status is as it was.
C15_RollbackErrorSupersedes ==
    RollbackFailed
    => LET f == FailedInTx
       IN  /\ f[1] \in {"exec", "logwrite"}
           /\ err = Err("rollback", f[2], 0)
           /\ err \notin {Err("exec", f[2], f[3]), Err("rows", f[2], f[3]),
                          Err("logwrite", f[2], 0)}
           /\ migrations = snap.am

C15_Witness ==
    /\ RollbackFailed
    /\ call.op = "Migrate"
    /\ FailedInTx[1] = "logwrite"
    /\ CommittedIds # <<>>
    /\ migrations[FailedInTx[2]] = Inactive

\* ---------------------------------------------------------------------- C16
\* C16: ApplyMigration reads the artifact before it opens a transaction; if
\* the read fails it returns the read error, having opened no transaction
\* and executed no statement for that migration, with the log and the
\* status as they were.
C16_ReadBeforeTransaction ==
    /\ \A j \in 1..Len(events) :
         events[j][1] = "begin" => (j > 1 /\ events[j - 1] = <<"read", events[j][2], 1>>)
    /\ \A j \in 1..Len(events) :
         (events[j][1] = "read" /\ events[j][3] = 0)
         => /\ j = Len(events)
            /\ pc = "returned"
            /\ err = Err("read", events[j][2], 0)
            /\ \A h \in 1..Len(events) : events[h][2] = events[j][2] => h = j
            /\ ~tx.open
            /\ log = snap.alog
            /\ migrations = snap.am

C16_Witness ==
    /\ pc = "returned"
    /\ call.op \in RollbackOps
    /\ Len(events) >= 2
    /\ LastEvent[1] = "read"
    /\ LastEvent[3] = 0
    /\ err = Err("read", LastEvent[2], 0)

\* ---------------------------------------------------------------------- C19
\* Event j closes a transaction: a commit or a rollback was attempted.
Closes(j) == events[j][1] \in {"commit", "rollback"}
\* Event j runs inside the transaction opened by event b.
InsideTx(b, j) ==
    /\ b < j
    /\ events[b] = <<"begin", events[j][2], 1>>
    /\ \A h \in (b + 1)..(j - 1) : ~Closes(h) /\ events[h][1] # "begin"

\* C19: every ApplyMigration opens at most one transaction; its statements
\* and its log statement run inside that transaction; a commit or a rollback
\* of an opened transaction is attempted before ApplyMigration returns, so
\* no transaction is open outside ApplyMigration and no transaction is
\* opened while another is open.
C19_TransactionDiscipline ==
    /\ \A a, b \in 1..Len(events) :
         (events[a][1] = "begin" /\ events[b][1] = "begin" /\ a # b)
         => events[a][2] # events[b][2]
    /\ \A j \in 1..Len(events) :
         events[j][1] \in {"exec", "logwrite", "commit", "rollback"}
         => \E b \in 1..Len(events) : InsideTx(b, j)
    /\ \A b \in 1..Len(events) :
         (events[b][1] = "begin" /\ events[b][3] = 1)
         => \/ \E j \in (b + 1)..Len(events) : Closes(j) /\ InsideTx(b, j)
            \/ /\ tx.open
               /\ tx.id = events[b][2]
               /\ \A h \in (b + 1)..Len(events) : events[h][1] \in {"exec", "logwrite"}
    /\ tx.open => (pc \in {"exec", "logwrite", "commit"} /\ tx.id = cur.id)
    /\ pc \in {"exec", "logwrite", "commit"} => (tx.open /\ tx.id = cur.id)

C19_Witness ==
    /\ pc = "returned"
    /\ call.op = "Migrate"
    /\ ~tx.open
    /\ Len(IdsOf("begin", 1)) >= 2
    /\ LastEvent[1] = "rollback"
    /\ events[Len(events) - 1][1] = "exec"

\* ---------------------------------------------------------------------- C20
\* C20: for a registry with at least one Active migration and n <= 0,
\* RollbackN(n) reverts nothing, makes no artifact or database call, returns
\* no error and ends without a runtime fault, registry and log unchanged.
C20_NonPositiveNIsNoOp ==
    (call.op = "RollbackN" /\ ActiveAtCall # {} /\ call.n <= 0)
    => /\ pc \in {"rollback", "returned"}
       /\ events = <<>>
       /\ migrations = snap.m
       /\ log = snap.log
       /\ pc = "returned" => err = Nil

\* ---------------------------------------------------------------------- C17
\* C17 (under SpecBulk): whenever a call of Migrate, Rollback, RollbackN or
\* RollbackAll has returned, with or without an error, every migration of
\* the registry is Active exactly when the log holds a row for its id.
C17_CacheAgreesWithLog ==
    pc \in {"returned", "idle"}
    => \A id \in DOMAIN migrations : migrations[id] = Active <=> id \in log

C17_Witness ==
    /\ pc = "returned"
    /\ call.op = "RollbackN"
    /\ err # Nil
    /\ CommittedIds # <<>>
    /\ \E id \in DOMAIN migrations : migrations[id] = Active /\ id \in log
    /\ \E id \in DOMAIN migrations :
           migrations[id] = Inactive /\ id \notin log /\ id \in snap.log

\* ---------------------------------------------------------------------- C18
\* C18 (under SpecBulk): the statements of an up script run, and its log
\* row is written and committed, only while the log holds no row for the
\* migration, and those of a down script only while it holds one; the log
\* changes only by a commit that adds the row of the migration applied or
\* removes the row of the migration reverted, so two committed applications
\* of a migration are separated by a committed revert of it.
C18_ExactlyOnce ==
    /\ [](pc \in {"exec", "logwrite", "commit"}
            => /\ cur.mType = upMigration => cur.id \notin log
               /\ cur.mType = downMigration => cur.id \in log)
    /\ [][log' # log =>
            /\ pc = "commit"
            /\ events' = Append(events, <<"commit", cur.id, 1>>)
            /\ cur.mType = upMigration => (cur.id \notin log /\ log' = log \cup {cur.id})
            /\ cur.mType = downMigration => (cur.id \in log /\ log' = log \ {cur.id})]_vars

C18_Witness ==
    /\ pc = "commit"
    /\ call.op = "Migrate"
    /\ cur.mType = upMigration
    /\ CommittedIds # <<>>
    /\ ActiveAtCall # {}
    /\ cur.id \notin log


\* -------------------------------------------------- claims about construction
\* The ids of the parseable matches that name the direction dir.
SeenWith(dir) ==
    {boot.matches[j][1] : j \in {n \in 1..Len(boot.matches) : boot.matches[n][2] = dir}}

\* The ids seen with an up artifact only or with a down artifact only.
HalfPairs ==
    (SeenWith(upMigration) \ SeenWith(downMigration))
        \cup (SeenWith(downMigration) \ SeenWith(upMigration))

\* The ids whose lookups had the outcome.
LookedWith(outcome) ==
    {boot.looked[j][1] : j \in {n \in 1..Len(boot.looked) : boot.looked[n][2] = outcome}}

\* C11: once discovery has run, either it failed with the invalid-pair
\* error, or every Migration of its registry has a non-zero id, a non-empty
\* name, up path and down path and, until the log is consulted, status
\* Inactive; an id seen with only an up or only a down artifact makes
\* discovery fail with the invalid-pair error, and construction then returns
\* an error and no engine.
C11_DiscoveryValidOrFails ==
    boot.discovered =>
        /\ \/ boot.err = InvalidMigrationPair /\ boot.result = "error"
           \/ /\ boot.err # InvalidMigrationPair
              /\ \A id \in DOMAIN boot.ms :
                    /\ boot.ms[id].Id = id
                    /\ id # 0
                    /\ boot.ms[id].Name # ""
                    /\ boot.ms[id].UpPath # NoPath
                    /\ boot.ms[id].DownPath # NoPath
                    /\ boot.looked = <<>> => boot.ms[id].Status = Inactive
        /\ HalfPairs # {} =>
              boot.err = InvalidMigrationPair /\ boot.result = "error"

C11_Witness ==
    /\ boot.discovered
    /\ HalfPairs # {}
    /\ \E id \in DOMAIN boot.ms : id \notin HalfPairs
    /\ boot.result = "error"

\* C12: when the table is absent and the creation statement fails, no
\* discovery and no lookup follows and no engine is returned, whatever the
\* Logger's Fatalf does.
C12_CreationFailureIsFatal ==
    boot.created = "failed" =>
        ~boot.discovered /\ boot.looked = <<>> /\ boot.result # "engine"

====
